---- MODULE Spec2Model ----
(***************************************************************************)
(* Model of app/store.py: SQLiteStore, the conversation store over three   *)
(* SQLite tables (threads, items, attachments).                            *)
(*                                                                         *)
(* A table is the sequence of its rows in rowid order: INSERT appends a    *)
(* row (new rowid = max rowid + 1), DELETE removes rows, and INSERT OR     *)
(* REPLACE removes the row holding the same primary key and appends the    *)
(* new one.  The connection is opened by sqlite3.connect(DB_PATH) with no  *)
(* PRAGMA foreign_keys, so the FOREIGN KEY clause of items is not enforced *)
(* and ON DELETE CASCADE never fires.                                      *)
(*                                                                         *)
(* Identifiers are non-empty strings; the empty string stands for an       *)
(* absent cursor (None), which the code's `if after:` treats alike.        *)
(***************************************************************************)
EXTENDS Naturals, Sequences, FiniteSets

\* ---------------------------------------------------------------- bounds
NumTimes == 2
MaxPageItems == 3
MaxLimit == 2
NumPageTimes == 3

\* ---------------------------------------------------------------- inputs
Users == {"u1", "u2"}
ThreadIds == {"t1", "t2"}
ItemIds == {"i1", "i2"}
AttachmentIds == {"a1", "a2"}
Payloads == {"p1", "p2"}
Orders == {"asc", "desc"}
Writers == {"w1", "w2"}
Ticks == 0 .. (NumTimes - 1)
PageTicks == 0 .. (NumPageTimes - 1)
None == ""

VARIABLES threads, items, attachments, last, pager, writers

vars == <<threads, items, attachments, last, pager, writers>>

\* ------------------------------------------------------- pure operators

\* datetime.isoformat(): "…:SS" when microsecond is 0, else "…:SS.ffffff".
\* A tick k is the datetime with second k \div 2 and microsecond 500000 * (k % 2);
\* the text is the sequence of its fields, 10 standing for the '.' separator.
isoformat(k) ==
    IF k % 2 = 0 THEN <<k \div 2>> ELSE <<k \div 2, 10, 5>>

\* SQLite's BINARY collation on TEXT: bytewise, a proper prefix sorts first.
RECURSIVE TextLess(_, _)
TextLess(a, b) ==
    IF b = <<>> THEN FALSE
    ELSE IF a = <<>> THEN TRUE
    ELSE IF Head(a) # Head(b) THEN Head(a) < Head(b)
    ELSE TextLess(Tail(a), Tail(b))

\* rows of a table satisfying a WHERE clause, in rowid order
Where(table, P(_)) == SelectSeq(table, P)

HasId(table, id) == \E i \in 1 .. Len(table) : table[i].id = id

\* INSERT OR IGNORE: a row with the same primary key stays and the new one
\* is dropped
InsertOrIgnore(table, row) ==
    IF HasId(table, row.id) THEN table ELSE Append(table, row)

\* INSERT OR REPLACE: the row with the same primary key is deleted, the new
\* row is inserted with a fresh rowid.
InsertOrReplace(table, row) ==
    LET NotSame(r) == r.id # row.id
    IN  Append(Where(table, NotSame), row)

\* ORDER BY created_at ASC: rows by created_at text, equal keys in rowid order.
RECURSIVE InsertSorted(_, _)
InsertSorted(sorted, row) ==
    IF sorted = <<>> THEN <<row>>
    ELSE IF TextLess(row.created_at, Head(sorted).created_at)
         THEN <<row>> \o sorted
         ELSE <<Head(sorted)>> \o InsertSorted(Tail(sorted), row)

RECURSIVE OrderByCreatedAtAsc(_)
OrderByCreatedAtAsc(rows) ==
    IF rows = <<>> THEN <<>>
    ELSE InsertSorted(OrderByCreatedAtAsc(SubSeq(rows, 1, Len(rows) - 1)),
                      rows[Len(rows)])

\* the list left as the query returned it
KeepOrder(s) == s

Reverse(s) == [i \in 1 .. Len(s) |-> s[Len(s) + 1 - i]]

\* item.model_dump_json() / thread.model_dump_json(): the serialized record
ItemJson(id, k, content) == [id |-> id, created_at |-> k, content |-> content]
ThreadJson(id, k) == [id |-> id, created_at |-> k]

\* an Attachment, attachment.model_dump_json() as the text of its fields, and
\* TypeAdapter(Attachment).validate_json() reading the fields back
Attachment(id, content) == [id |-> id, content |-> content]
AttachmentJson(id, content) == <<"id", id, "content", content>>
AttachmentOfJson(json) == [id |-> json[2], content |-> json[4]]

\* ------------------------------------------------------------ results
\* the last call: its arguments, what it raised ("ok": nothing) and returned
Result(op, tid, id, user, res, out) ==
    [op |-> op, thread_id |-> tid, id |-> id, user_id |-> user,
     after |-> None, limit |-> 0, order |-> None, arg |-> <<>>,
     res |-> res, out |-> out]

ListResult(op, tid, after, limit, order, user, res, out) ==
    [op |-> op, thread_id |-> tid, id |-> None, user_id |-> user,
     after |-> after, limit |-> limit, order |-> order, arg |-> <<>>,
     res |-> res, out |-> out]

\* the client that follows cursors: the call it repeats and the pages it has got
NoPager == [pc |-> "idle", op |-> None, thread_id |-> None, user_id |-> None, limit |-> 0,
            order |-> None, first |-> None, after |-> None, has_more |-> FALSE,
            acc |-> <<>>]

\* a request handler task that calls add_thread_item
NoWriter == [pc |-> "idle", thread_id |-> None, id |-> None, user_id |-> None,
             created_at |-> 0, content |-> None, res |-> None]

Init ==
    /\ threads = <<>>
    /\ items = <<>>
    /\ attachments = <<>>
    /\ last = Result("init", None, None, None, "ok", <<>>)
    /\ pager = NoPager
    /\ writers = [w \in Writers |-> NoWriter]

\* ------------------------------------------------------ thread operations

\* the lookup without its user_id condition
ThreadRowsById(table, tid, user) ==
    LET Match(r) == r.id = tid
    IN  Where(table, Match)

\* SELECT data FROM threads WHERE id = ? AND user_id = ?
ThreadRows(table, tid, user) ==
    LET Match(r) == r.id = tid /\ r.user_id = user
    IN  Where(table, Match)

load_thread(table, tid, user) ==
    LET rows == ThreadRows(table, tid, user)
    IN  IF rows = <<>>
        THEN Result("load_thread", tid, None, user, "NotFoundError", <<>>)
        ELSE Result("load_thread", tid, None, user, "ok", <<rows[1].data>>)

LoadThread(tid, user) ==
    /\ last' = load_thread(threads, tid, user)
    /\ UNCHANGED <<threads, items, attachments, pager, writers>>

SaveThread(tid, user, k) ==
    /\ threads' = InsertOrReplace(threads,
                      [id |-> tid, user_id |-> user,
                       created_at |-> isoformat(k), data |-> ThreadJson(tid, k)])
    /\ last' = Result("save_thread", tid, None, user, "ok", <<>>)
    /\ UNCHANGED <<items, attachments, pager, writers>>

\* DELETE FROM threads WHERE id = ? AND user_id = ?
\* DELETE FROM items WHERE thread_id = ? AND user_id = ?
delete_thread_threads(table, tid, user) ==
    LET Keep(r) == ~(r.id = tid /\ r.user_id = user)
    IN  Where(table, Keep)

delete_thread_items(table, tid, user) ==
    LET Keep(r) == ~(r.thread_id = tid /\ r.user_id = user)
    IN  Where(table, Keep)

DeleteThread(tid, user) ==
    /\ threads' = delete_thread_threads(threads, tid, user)
    /\ items' = delete_thread_items(items, tid, user)
    /\ last' = Result("delete_thread", tid, None, user, "ok", <<>>)
    /\ UNCHANGED <<attachments, pager, writers>>

\* -------------------------------------------------------- item operations

ItemRow(tid, id, user, k, content) ==
    [id |-> id, thread_id |-> tid, user_id |-> user,
     created_at |-> isoformat(k), data |-> ItemJson(id, k, content)]

\* a table whose id column carries no key
InsertConflictNone(table, tid, id) == FALSE

\* INSERT INTO items: the PRIMARY KEY of items is id alone.
InsertConflict(table, tid, id) == HasId(table, id)

\* the append written as the upsert is: INSERT OR REPLACE
add_thread_item_replace(table, tid, id, user, k, content) ==
    [table |-> InsertOrReplace(table, ItemRow(tid, id, user, k, content)),
     res |-> "ok"]

\* the statement raises and the with block rolls back, or the row is inserted
add_thread_item(table, tid, id, user, k, content) ==
    IF InsertConflict(table, tid, id)
    THEN [table |-> table, res |-> "IntegrityError"]
    ELSE [table |-> Append(table, ItemRow(tid, id, user, k, content)), res |-> "ok"]

AddThreadItem(tid, id, user, k, content) ==
    /\ LET r == add_thread_item(items, tid, id, user, k, content)
       IN  /\ items' = r.table
           /\ last' = Result("add_thread_item", tid, id, user, r.res, <<>>)
    /\ UNCHANGED <<threads, attachments, pager, writers>>

save_item(table, tid, id, user, k, content) ==
    InsertOrReplace(table, ItemRow(tid, id, user, k, content))

SaveItem(tid, id, user, k, content) ==
    /\ items' = save_item(items, tid, id, user, k, content)
    /\ last' = Result("save_item", tid, id, user, "ok", <<>>)
    /\ UNCHANGED <<threads, attachments, pager, writers>>

\* DELETE FROM items WHERE id = ? AND thread_id = ?
DeleteThreadItem(tid, id, user) ==
    /\ LET Keep(r) == ~(r.id = id /\ r.thread_id = tid)
       IN  items' = Where(items, Keep)
    /\ last' = Result("delete_thread_item", tid, id, user, "ok", <<>>)
    /\ UNCHANGED <<threads, attachments, pager, writers>>

\* the query without its thread_id condition
ItemsOfAnyThread(table, tid) == OrderByCreatedAtAsc(table)

\* SELECT data, created_at FROM items WHERE thread_id = ? ORDER BY created_at ASC
ItemsOfThread(table, tid) ==
    LET InThread(r) == r.thread_id = tid
    IN  OrderByCreatedAtAsc(Where(table, InThread))

\* the scan that starts the page at the cursor's record: start_idx = i
StartIdxAtCursor(records, after) ==
    IF after = None THEN 0
    ELSE LET hits == {i \in 1 .. Len(records) : records[i].id = after}
         IN  IF hits = {} THEN 0
             ELSE (CHOOSE i \in hits : \A j \in hits : i <= j) - 1

\* the scan that gives up on a cursor it does not find: start_idx = len(items)
StartIdxStaleEnd(records, after) ==
    IF after = None THEN 0
    ELSE LET hits == {i \in 1 .. Len(records) : records[i].id = after}
         IN  IF hits = {} THEN Len(records)
             ELSE CHOOSE i \in hits : \A j \in hits : i <= j

\* for i, item in enumerate(items): if item.id == after: start_idx = i + 1; break
StartIdx(records, after) ==
    IF after = None THEN 0
    ELSE LET hits == {i \in 1 .. Len(records) : records[i].id = after}
         IN  IF hits = {} THEN 0
             ELSE CHOOSE i \in hits : \A j \in hits : i <= j

Min(a, b) == IF a <= b THEN a ELSE b

\* sliced = items[start_idx : start_idx + limit]
\* has_more = (start_idx + limit) < len(items)
\* new_after = sliced[-1].id if sliced and has_more else None
PageOf(records, after, limit) ==
    LET start_idx == StartIdx(records, after)
        sliced == SubSeq(records, start_idx + 1, Min(start_idx + limit, Len(records)))
        has_more == (start_idx + limit) < Len(records)
    IN  [data |-> sliced,
         has_more |-> has_more,
         after |-> IF sliced # <<>> /\ has_more THEN sliced[Len(sliced)].id ELSE None]

RowData(rows) == [i \in 1 .. Len(rows) |-> rows[i].data]

load_thread_items(thr, itm, tid, after, limit, order, user) ==
    IF ThreadRows(thr, tid, user) = <<>>
    THEN ListResult("load_thread_items", tid, after, limit, order, user,
                    "NotFoundError", <<>>)
    ELSE LET asc == RowData(ItemsOfThread(itm, tid))
             records == IF order = "desc" THEN Reverse(asc) ELSE asc
         IN  ListResult("load_thread_items", tid, after, limit, order, user,
                        "ok", PageOf(records, after, limit))

\* ---------------------------------------------------- a client paging through
\* the first call carries no cursor, or any cursor the client kept; every
\* further call carries the cursor of the page before, until a page says
\* has_more = false

Paged(call, page) ==
    IF page.res # "ok"
    THEN [call EXCEPT !.pc = "failed"]
    ELSE [call EXCEPT !.pc = IF page.out.has_more THEN "paging" ELSE "done",
                      !.after = page.out.after,
                      !.has_more = page.out.has_more,
                      !.acc = call.acc \o page.out.data]

PageFirst(tid, after, limit, order, user) ==
    /\ pager.pc = "idle"
    /\ LET page == load_thread_items(threads, items, tid, after, limit, order, user)
           call == [NoPager EXCEPT !.op = "load_thread_items",
                                   !.thread_id = tid, !.user_id = user,
                                   !.limit = limit, !.order = order,
                                   !.first = after]
       IN  /\ last' = page
           /\ pager' = Paged(call, page)
    /\ UNCHANGED <<threads, items, attachments, writers>>

PageNext ==
    /\ pager.pc = "paging"
    /\ LET page == load_thread_items(threads, items, pager.thread_id, pager.after,
                                     pager.limit, pager.order, pager.user_id)
       IN  /\ last' = page
           /\ pager' = Paged(pager, page)
    /\ UNCHANGED <<threads, items, attachments, writers>>

\* ------------------------------------------------------- listing threads

\* ORDER BY created_at DESC: the greater text first, equal keys in rowid order
RECURSIVE InsertSortedDesc(_, _)
InsertSortedDesc(sorted, row) ==
    IF sorted = <<>> THEN <<row>>
    ELSE IF TextLess(Head(sorted).created_at, row.created_at)
         THEN <<row>> \o sorted
         ELSE <<Head(sorted)>> \o InsertSortedDesc(Tail(sorted), row)

RECURSIVE OrderByCreatedAtDesc(_)
OrderByCreatedAtDesc(rows) ==
    IF rows = <<>> THEN <<>>
    ELSE InsertSortedDesc(OrderByCreatedAtDesc(SubSeq(rows, 1, Len(rows) - 1)),
                          rows[Len(rows)])

\* the query without its user_id condition
ThreadsOfAnyUser(table, user) == OrderByCreatedAtDesc(table)

\* SELECT data FROM threads WHERE user_id = ? ORDER BY created_at DESC
ThreadsOfUser(table, user) ==
    LET Mine(r) == r.user_id = user
    IN  OrderByCreatedAtDesc(Where(table, Mine))

\* the order argument is never read
load_threads(table, limit, after, order, user) ==
    ListResult("load_threads", None, after, limit, order, user, "ok",
               PageOf(RowData(ThreadsOfUser(table, user)), after, limit))

ThreadPageFirst(after, limit, order, user) ==
    /\ pager.pc = "idle"
    /\ LET page == load_threads(threads, limit, after, order, user)
           call == [NoPager EXCEPT !.op = "load_threads", !.user_id = user,
                                   !.limit = limit, !.order = order,
                                   !.first = after]
       IN  /\ last' = page
           /\ pager' = Paged(call, page)
    /\ UNCHANGED <<threads, items, attachments, writers>>

ThreadPageNext ==
    /\ pager.pc = "paging"
    /\ LET page == load_threads(threads, pager.limit, pager.after, pager.order,
                                pager.user_id)
       IN  /\ last' = page
           /\ pager' = Paged(pager, page)
    /\ UNCHANGED <<threads, items, attachments, writers>>

\* -------------------------------------------------- attachment operations

SaveAttachment(id, user, content) ==
    /\ attachments' = InsertOrReplace(attachments,
                          [id |-> id, user_id |-> user,
                           data |-> AttachmentJson(id, content)])
    /\ last' = [Result("save_attachment", None, id, user, "ok", <<>>)
                   EXCEPT !.arg = <<Attachment(id, content)>>]
    /\ UNCHANGED <<threads, items, pager, writers>>

\* SELECT data FROM attachments WHERE id = ?
AttachmentRows(table, id, user) ==
    LET Match(r) == r.id = id
    IN  Where(table, Match)

load_attachment(table, id, user) ==
    LET rows == AttachmentRows(table, id, user)
    IN  IF rows = <<>>
        THEN Result("load_attachment", None, id, user, "NotFoundError", <<>>)
        ELSE Result("load_attachment", None, id, user, "ok",
                    <<AttachmentOfJson(rows[1].data)>>)

LoadAttachment(id, user) ==
    /\ last' = load_attachment(attachments, id, user)
    /\ UNCHANGED <<threads, items, attachments, pager, writers>>

\* DELETE FROM attachments WHERE id = ?
DeleteAttachment(id, user) ==
    /\ LET Keep(r) == r.id # id
       IN  attachments' = Where(attachments, Keep)
    /\ last' = Result("delete_attachment", None, id, user, "ok", <<>>)
    /\ UNCHANGED <<threads, items, pager, writers>>

\* ------------------------------------------------- racing add_thread_item
\* add_thread_item is a coroutine without an await: once the event loop runs
\* it, it runs to its end.  Racing request handlers differ in the order in
\* which the loop runs them.

WriterCall(w, tid, id, user, k, content) ==
    /\ writers[w].pc = "idle"
    /\ writers' = [writers EXCEPT ![w] =
                      [pc |-> "called", thread_id |-> tid, id |-> id,
                       user_id |-> user, created_at |-> k, content |-> content,
                       res |-> None]]
    /\ UNCHANGED <<threads, items, attachments, last, pager>>

WriterRun(w) ==
    /\ writers[w].pc = "called"
    /\ LET c == writers[w]
           r == add_thread_item(items, c.thread_id, c.id, c.user_id,
                                c.created_at, c.content)
       IN  /\ items' = r.table
           /\ last' = Result("add_thread_item", c.thread_id, c.id, c.user_id,
                             r.res, <<>>)
           /\ writers' = [writers EXCEPT ![w].pc = "done", ![w].res = r.res]
    /\ UNCHANGED <<threads, attachments, pager>>

\* ---------------------------------------------------------- specifications

TwoThreads ==
    <<[id |-> "t1", user_id |-> "u1", created_at |-> isoformat(0),
       data |-> ThreadJson("t1", 0)],
      [id |-> "t2", user_id |-> "u2", created_at |-> isoformat(0),
       data |-> ThreadJson("t2", 0)]>>

\* the store: thread and item operations in any order by any user
Next ==
    \/ \E tid \in ThreadIds, user \in Users : LoadThread(tid, user)
    \/ \E tid \in ThreadIds, user \in Users : SaveThread(tid, user, 0)
    \/ \E tid \in ThreadIds, user \in Users : DeleteThread(tid, user)
    \/ \E tid \in ThreadIds, id \in ItemIds, user \in Users, k \in Ticks :
          AddThreadItem(tid, id, user, k, "p1")
    \/ \E tid \in ThreadIds, id \in ItemIds, user \in Users, k \in Ticks :
          SaveItem(tid, id, user, k, "p1")
    \/ \E tid \in ThreadIds, id \in ItemIds, user \in Users :
          DeleteThreadItem(tid, id, user)

Spec == Init /\ [][Next]_vars

\* item operations alone, over two threads of two owners
InitItems ==
    /\ threads = TwoThreads
    /\ items = <<>>
    /\ attachments = <<>>
    /\ last = Result("init", None, None, None, "ok", <<>>)
    /\ pager = NoPager
    /\ writers = [w \in Writers |-> NoWriter]

NextItems ==
    \/ \E tid \in ThreadIds, id \in ItemIds, user \in Users, k \in Ticks,
          content \in Payloads : AddThreadItem(tid, id, user, k, content)
    \/ \E tid \in ThreadIds, id \in ItemIds, user \in Users, k \in Ticks,
          content \in Payloads : SaveItem(tid, id, user, k, content)
    \/ \E tid \in ThreadIds, id \in ItemIds, user \in Users :
          DeleteThreadItem(tid, id, user)

SpecItems == InitItems /\ [][NextItems]_vars

\* attachment operations
NextAttach ==
    \/ \E id \in AttachmentIds, user \in Users, content \in Payloads :
          SaveAttachment(id, user, content)
    \/ \E id \in AttachmentIds, user \in Users : LoadAttachment(id, user)
    \/ \E id \in AttachmentIds, user \in Users : DeleteAttachment(id, user)

SpecAttach == Init /\ [][NextAttach]_vars

\* listing: any items table of up to MaxPageItems rows, never written while
\* a client pages through it
PageItemIds == <<"i1", "i2", "i3", "i4", "i5">>

PageCursors == {None} \cup {PageItemIds[i] : i \in 1 .. Len(PageItemIds)}

\* created_at is only ever compared: of the tables that differ by a renaming
\* of the times that keeps their order, the one whose times are the first
\* ticks stands for all
FirstTicks(t) ==
    LET used == {t[i][2] : i \in 1 .. Len(t)}
    IN  used = 0 .. (Cardinality(used) - 1)

PageTables ==
    {t \in UNION {[1 .. n -> ThreadIds \X PageTicks] : n \in 0 .. MaxPageItems} :
        FirstTicks(t)}

InitPage ==
    /\ threads = TwoThreads
    /\ \E t \in PageTables :
          items = [i \in 1 .. Len(t) |->
                      ItemRow(t[i][1], PageItemIds[i], "u1", t[i][2], "p1")]
    /\ attachments = <<>>
    /\ last = Result("init", None, None, None, "ok", <<>>)
    /\ pager = NoPager
    /\ writers = [w \in Writers |-> NoWriter]

NextPage ==
    \/ \E tid \in ThreadIds, after \in PageCursors, limit \in 0 .. MaxLimit,
          order \in Orders, user \in Users :
          PageFirst(tid, after, limit, order, user)
    \/ PageNext

SpecPage == InitPage /\ [][NextPage]_vars

\* listing threads: any threads table of up to MaxPageItems rows, never
\* written while a client pages through it
PageThreadIds == <<"t1", "t2", "t3", "t4", "t5">>

ThreadCursors == {None} \cup {PageThreadIds[i] : i \in 1 .. Len(PageThreadIds)}

ThreadTables ==
    {t \in UNION {[1 .. n -> Users \X PageTicks] : n \in 0 .. MaxPageItems} :
        FirstTicks(t)}

InitThreads ==
    /\ \E t \in ThreadTables :
          threads = [i \in 1 .. Len(t) |->
                        [id |-> PageThreadIds[i], user_id |-> t[i][1],
                         created_at |-> isoformat(t[i][2]),
                         data |-> ThreadJson(PageThreadIds[i], t[i][2])]]
    /\ items = <<>>
    /\ attachments = <<>>
    /\ last = Result("init", None, None, None, "ok", <<>>)
    /\ pager = NoPager
    /\ writers = [w \in Writers |-> NoWriter]

NextThreads ==
    \/ \E after \in ThreadCursors, limit \in 0 .. MaxLimit, order \in Orders,
          user \in Users : ThreadPageFirst(after, limit, order, user)
    \/ ThreadPageNext

SpecThreads == InitThreads /\ [][NextThreads]_vars

\* both listings, over the tables of SpecPage and of SpecThreads
InitList == InitPage \/ InitThreads

NextList == NextPage \/ NextThreads

SpecList == InitList /\ [][NextList]_vars

\* two request handlers racing to append
NextRace ==
    \/ \E w \in Writers, tid \in ThreadIds, id \in ItemIds, user \in Users,
          k \in Ticks, content \in Payloads :
          WriterCall(w, tid, id, user, k, content)
    \/ \E w \in Writers : WriterRun(w)

SpecRace == InitItems /\ [][NextRace]_vars

\* ===================================================================
\* Properties
\* ===================================================================

OwnedBy(tid, user) ==
    \E i \in 1 .. Len(threads) :
        threads[i].id = tid /\ threads[i].user_id = user

OwnedByOther(tid, user) ==
    \E i \in 1 .. Len(threads) :
        threads[i].id = tid /\ threads[i].user_id # user

ItemInThread(table, tid, id) ==
    \E i \in 1 .. Len(table) : table[i].id = id /\ table[i].thread_id = tid

\* C1: load_thread(t, B) of a thread t that belongs to another owner A raises
\* NotFoundError, and the outcome is the very outcome of the same call on a
\* store in which no thread was ever created.
C1_ForeignThreadNotFound ==
    (last.op = "load_thread" /\ OwnedByOther(last.thread_id, last.user_id))
    => /\ last.res = "NotFoundError"
       /\ last = load_thread(<<>>, last.thread_id, last.user_id)

C1_Witness ==
    /\ last.op = "load_thread"
    /\ last.res = "NotFoundError"
    /\ OwnedByOther(last.thread_id, last.user_id)

\* the rows of thread tid, and how often id occurs in a sequence of records
ThreadItemIds(tid) ==
    {items[i].id : i \in {j \in 1 .. Len(items) : items[j].thread_id = tid}}

Occurrences(records, id) ==
    Cardinality({j \in 1 .. Len(records) : records[j].id = id})

\* C2: a client that pages through a thread with limit >= 1, from no cursor
\* until has_more is false, has received every item of the thread exactly
\* once, oldest first for "asc" and newest first for "desc".
C2_PagesCoverOnce ==
    (pager.pc = "done" /\ pager.first = None /\ pager.limit >= 1)
    => /\ Len(pager.acc) = Cardinality(ThreadItemIds(pager.thread_id))
       /\ \A id \in ThreadItemIds(pager.thread_id) :
              Occurrences(pager.acc, id) = 1
       /\ \A j, k \in 1 .. Len(pager.acc) :
              j < k =>
                 IF pager.order = "desc"
                 THEN pager.acc[j].created_at >= pager.acc[k].created_at
                 ELSE pager.acc[j].created_at <= pager.acc[k].created_at

C2_Witness ==
    /\ pager.pc = "done"
    /\ pager.first = None
    /\ pager.limit = 1
    /\ Len(pager.acc) = 3
    /\ pager.acc[1].created_at # pager.acc[3].created_at

\* C3: add_thread_item with a (thread_id, id) that is already stored raises
\* IntegrityError (the store's conflict) and leaves the items table, hence the
\* row of the first call, as it was.
C3_SecondAppendConflicts ==
    [][(last'.op = "add_thread_item"
          /\ ItemInThread(items, last'.thread_id, last'.id))
       => (last'.res = "IntegrityError" /\ items' = items)]_vars

C3_Witness ==
    /\ last.op = "add_thread_item"
    /\ last.res = "IntegrityError"
    /\ ItemInThread(items, last.thread_id, last.id)

\* C4: add_thread_item raises NotFoundError whenever the caller owns no thread
\* of that thread_id.
C4_AppendChecksThread ==
    (last.op = "add_thread_item" /\ ~OwnedBy(last.thread_id, last.user_id))
    => last.res = "NotFoundError"

\* C5: save_item raises NotFoundError whenever the caller owns no thread of
\* that thread_id.
C5_UpsertChecksThread ==
    (last.op = "save_item" /\ ~OwnedBy(last.thread_id, last.user_id))
    => last.res = "NotFoundError"

RowOf(table, id) == table[CHOOSE i \in 1 .. Len(table) : table[i].id = id]

IdsOf(rows) == [i \in 1 .. Len(rows) |-> rows[i].id]

\* C6: save_item of an id that is already stored leaves the row's thread_id,
\* user_id and created_at, and the order of every thread's listing, as they
\* were.
C6_UpsertKeepsEnvelope ==
    [][(last'.op = "save_item" /\ HasId(items, last'.id))
       => /\ HasId(items', last'.id)
          /\ RowOf(items', last'.id).thread_id = RowOf(items, last'.id).thread_id
          /\ RowOf(items', last'.id).user_id = RowOf(items, last'.id).user_id
          /\ RowOf(items', last'.id).created_at = RowOf(items, last'.id).created_at
          /\ \A tid \in ThreadIds :
                 IdsOf(ItemsOfThread(items', tid)) = IdsOf(ItemsOfThread(items, tid))]_vars

\* C7: delete_thread by the thread's owner removes the thread and leaves no
\* item of that thread_id, whoever wrote it; the same call made again right
\* after raises nothing and changes nothing.
C7_OwnerDeleteLeavesNoItems ==
    [][/\ (last'.op = "delete_thread" /\ OwnedBy(last'.thread_id, last'.user_id))
          => /\ last'.res = "ok"
             /\ ~HasId(threads', last'.thread_id)
             /\ \A i \in 1 .. Len(items') : items'[i].thread_id # last'.thread_id
       /\ (last.op = "delete_thread" /\ last' = last)
          => (threads' = threads /\ items' = items)]_vars

\* C8: delete_thread by a user who does not own the thread changes nothing:
\* the thread and every item of it stay stored.
C8_ForeignDeleteIsNoOp ==
    [][(last'.op = "delete_thread"
          /\ OwnedByOther(last'.thread_id, last'.user_id))
       => (last'.res = "ok" /\ threads' = threads /\ items' = items)]_vars

AttachmentOwnedBy(id, user) ==
    \E i \in 1 .. Len(attachments) :
        attachments[i].id = id /\ attachments[i].user_id = user

\* C9: load_attachment returns the attachment exactly when it is stored and
\* owned by the caller, and raises NotFoundError otherwise.
C9_AttachmentOwnerOnly ==
    last.op = "load_attachment"
    => /\ last.res = "ok" <=> AttachmentOwnedBy(last.id, last.user_id)
       /\ last.res # "ok" => last.res = "NotFoundError"

\* C10: of two racing add_thread_item calls with the same id on the same
\* thread, one returns, the other raises IntegrityError, and one row with
\* that id is stored.
C10_OneRacerWins ==
    \A w1, w2 \in Writers :
        (w1 # w2 /\ writers[w1].pc = "done" /\ writers[w2].pc = "done"
            /\ writers[w1].id = writers[w2].id
            /\ writers[w1].thread_id = writers[w2].thread_id)
        => /\ {writers[w1].res, writers[w2].res} = {"ok", "IntegrityError"}
           /\ Occurrences(items, writers[w1].id) = 1

C10_Witness ==
    /\ writers["w1"].pc = "done" /\ writers["w2"].pc = "done"
    /\ writers["w1"].id = writers["w2"].id
    /\ writers["w1"].thread_id = writers["w2"].thread_id
    /\ writers["w1"].content # writers["w2"].content
    /\ writers["w2"].res = "ok"

ThreadIdsOf(user) ==
    {threads[i].id : i \in {j \in 1 .. Len(threads) : threads[j].user_id = user}}

\* C11: load_threads returns the caller's threads newest first when order is
\* "desc" and oldest first when order is "asc".
C11_ThreadsInRequestedOrder ==
    last.op = "load_threads"
    => \A j, k \in 1 .. Len(last.out.data) :
          j < k =>
             IF last.order = "asc"
             THEN last.out.data[j].created_at <= last.out.data[k].created_at
             ELSE last.out.data[j].created_at >= last.out.data[k].created_at

\* C12: the pages of load_threads, followed from no cursor with limit >= 1
\* until has_more is false, hold each thread of the caller once and no thread
\* of anybody else; no single page holds a thread of anybody else.
C12_ThreadPagesAreTheOwners ==
    /\ last.op = "load_threads"
       => \A j \in 1 .. Len(last.out.data) :
             last.out.data[j].id \in ThreadIdsOf(last.user_id)
    /\ (pager.op = "load_threads" /\ pager.pc = "done" /\ pager.first = None
          /\ pager.limit >= 1)
       => /\ {pager.acc[j].id : j \in 1 .. Len(pager.acc)} = ThreadIdsOf(pager.user_id)
          /\ Len(pager.acc) = Cardinality(ThreadIdsOf(pager.user_id))

C12_Witness ==
    /\ pager.op = "load_threads" /\ pager.pc = "done" /\ pager.first = None
    /\ pager.limit = 1
    /\ Len(pager.acc) = 2
    /\ Len(threads) = 3

AppendedTo(tid) ==
    LET InThread(r) == r.thread_id = tid
    IN  RowData(Where(items, InThread))

IncreasingTimes(records) ==
    \A j, k \in 1 .. Len(records) :
        j < k => records[j].created_at < records[k].created_at

NewestFirst(tid) ==
    LET a == AppendedTo(tid)
    IN  [i \in 1 .. Len(a) |-> a[Len(a) + 1 - i]]

\* C14: in a thread of n items appended with strictly increasing timestamps,
\* load_thread_items with order "desc", limit k (1 <= k < n) and no cursor
\* returns the k newest items newest first, has_more true and the id of the
\* k-th newest as cursor; called with that cursor it returns the next (up to)
\* k items, starting with the (k+1)-th newest.
C14_NewestFirstPages ==
    (last.op = "load_thread_items" /\ last.res = "ok" /\ last.order = "desc"
        /\ IncreasingTimes(AppendedTo(last.thread_id))
        /\ 1 <= last.limit /\ last.limit < Len(AppendedTo(last.thread_id)))
    => LET newest == NewestFirst(last.thread_id)
           n == Len(newest)
           k == last.limit
       IN  /\ last.after = None
              => /\ last.out.data = SubSeq(newest, 1, k)
                 /\ last.out.has_more
                 /\ last.out.after = newest[k].id
           /\ last.after = newest[k].id
              => last.out.data = SubSeq(newest, k + 1, Min(2 * k, n))

C14_Witness ==
    /\ last.op = "load_thread_items" /\ last.res = "ok" /\ last.order = "desc"
    /\ pager.first = None
    /\ IncreasingTimes(AppendedTo(last.thread_id))
    /\ Len(AppendedTo(last.thread_id)) = 3
    /\ last.limit = 1
    /\ last.after = NewestFirst(last.thread_id)[1].id
    /\ last.out.data = <<NewestFirst(last.thread_id)[2]>>
    /\ last.out.has_more

\* C15: a stored thread keeps its owner: no call changes the user_id of a
\* thread that stays stored, so a save_thread by another user under the same
\* thread id never takes the thread from the user who created it.
C15_OwnerImmutable ==
    [][\A i \in 1 .. Len(threads), j \in 1 .. Len(threads') :
          threads[i].id = threads'[j].id
          => threads[i].user_id = threads'[j].user_id]_vars

\* C16: load_attachment right after save_attachment(a) by the same user, for
\* a's id, returns a value equal to a; and save_attachment leaves one row of
\* that id, holding the attachment just saved (it replaces an earlier one).
C16_AttachmentRoundTrip ==
    [][/\ (last.op = "save_attachment" /\ last'.op = "load_attachment"
             /\ last'.id = last.id /\ last'.user_id = last.user_id)
          => (last'.res = "ok" /\ last'.out = last.arg)
       /\ (last'.op = "save_attachment" /\ last' # last)
          => /\ Occurrences(attachments', last'.id) = 1
             /\ <<AttachmentOfJson(RowOf(attachments', last'.id).data)>> = last'.arg
             /\ RowOf(attachments', last'.id).user_id = last'.user_id]_vars

C16_Witness ==
    /\ last.op = "load_attachment"
    /\ last.res = "ok"
    /\ AttachmentOwnedBy(last.id, last.user_id)
    /\ last.out = <<Attachment(last.id, "p2")>>
    /\ Len(attachments) = 2
    /\ attachments[2].id = last.id

\* C17: delete_thread is all or nothing for a thread and its items: after the
\* call either the thread is not stored and no item of it is stored, or the
\* call changed neither table.
C17_DeleteAllOrNothing ==
    [][last'.op = "delete_thread"
       => \/ /\ ~HasId(threads', last'.thread_id)
             /\ \A i \in 1 .. Len(items') :
                   items'[i].thread_id # last'.thread_id
          \/ /\ threads' = threads
             /\ items' = items]_vars

\* the ordered set a listing call pages over
OrderedSetOf(call) ==
    IF call.op = "load_threads"
    THEN RowData(ThreadsOfUser(threads, call.user_id))
    ELSE IF call.order = "desc"
         THEN Reverse(RowData(ItemsOfThread(items, call.thread_id)))
         ELSE RowData(ItemsOfThread(items, call.thread_id))

IsPage(call) ==
    /\ call.op \in {"load_thread_items", "load_threads"}
    /\ call.res = "ok"

\* C18: on every returned page has_more is true exactly when records of the
\* ordered set remain beyond the returned slice, and the next cursor is the id
\* of the last returned record when has_more is true and None when it is
\* false.
C18_HasMoreAndCursor ==
    IsPage(last)
    => LET records == OrderedSetOf(last)
           page == last.out
           beyond == Len(records)
                        - (StartIdx(records, last.after) + Len(page.data))
       IN  /\ page.has_more <=> beyond > 0
           /\ page.has_more
                 => /\ page.data # <<>>
                    /\ page.after = page.data[Len(page.data)].id
           /\ ~page.has_more => page.after = None

\* the call of a listing with its cursor left out
WithoutCursor(call) ==
    IF call.op = "load_threads"
    THEN load_threads(threads, call.limit, None, call.order, call.user_id)
    ELSE load_thread_items(threads, items, call.thread_id, None, call.limit,
                           call.order, call.user_id)

StaleCursor(call) ==
    /\ call.after # None
    /\ \A i \in 1 .. Len(OrderedSetOf(call)) :
          OrderedSetOf(call)[i].id # call.after

\* C19: a listing call whose cursor is the id of no record of the ordered set
\* raises nothing the call without a cursor does not raise and returns the
\* page that call returns, the one starting at the first record.
C19_StaleCursorStartsOver ==
    (last.op \in {"load_thread_items", "load_threads"} /\ StaleCursor(last))
    => /\ last.res = WithoutCursor(last).res
       /\ last.out = WithoutCursor(last).out
       /\ IsPage(last)
             => last.out.data
                  = SubSeq(OrderedSetOf(last), 1,
                           Min(last.limit, Len(OrderedSetOf(last))))

C19_Witness ==
    /\ IsPage(last)
    /\ last.op = "load_threads"
    /\ StaleCursor(last)
    /\ Len(OrderedSetOf(last)) = 3
    /\ Len(last.out.data) = 2
    /\ last.out.has_more
    /\ last.out.after = last.out.data[2].id

\* the rows of a table that belong to other threads than tid
OtherThreads(table, tid) ==
    LET Other(r) == r.thread_id # tid
    IN  Where(table, Other)

\* C20: add_thread_item into a thread the caller owns succeeds whenever no
\* item of that id is stored in that thread, whatever other threads hold, and
\* leaves the rows of the other threads as they were.
C20_IdsUniquePerThread ==
    [][(/\ last'.op = "add_thread_item"
        /\ OwnedBy(last'.thread_id, last'.user_id)
        /\ ~ItemInThread(items, last'.thread_id, last'.id))
       => /\ last'.res = "ok"
          /\ ItemInThread(items', last'.thread_id, last'.id)
          /\ OtherThreads(items', last'.thread_id)
                = OtherThreads(items, last'.thread_id)]_vars

\* C21: in every reachable state each stored item names a stored thread, and
\* the item's user_id is the user_id of that thread.
C21_ItemsReferToOwnThread ==
    \A i \in 1 .. Len(items) : OwnedBy(items[i].thread_id, items[i].user_id)

\* C22: save_attachment and delete_attachment leave every attachment of the
\* other users stored, with its data and its owner, also when the call names
\* its id; and delete_attachment of an id that is not stored changes nothing.
C22_AttachmentWritesOwnerOnly ==
    [][/\ last'.op \in {"save_attachment", "delete_attachment"}
          => \A i \in 1 .. Len(attachments) :
                attachments[i].user_id # last'.user_id
                => \E j \in 1 .. Len(attachments') :
                      attachments'[j] = attachments[i]
       /\ (last'.op = "delete_attachment" /\ ~HasId(attachments, last'.id))
          => attachments' = attachments]_vars

\* C23: for every limit, 0 included, and every cursor, a page that says
\* has_more = true carries a next cursor, so a client following the cursors
\* is never left with more to read and nothing to ask for.
C23_HasMoreCarriesCursor ==
    (IsPage(last) /\ last.out.has_more) => last.out.after # None

====
